---------------------------- MODULE Spec2Model ----------------------------
(***************************************************************************)
(* Model of the LD2410BLE device client (src/src/ld2410_ble/ld2410_ble.py) *)
(* with the frame grammar of const.py and the state class of models.py.    *)
(*                                                                         *)
(* Three specifications share the variables:                               *)
(*   Spec        the connection life cycle: caller tasks that send         *)
(*               commands, connect or stop, the idle-disconnect timer and  *)
(*               the tasks it creates, the two asyncio locks, the retry    *)
(*               wrapper, and the transport (faults and link drops).       *)
(*   FairSpec    Spec with the event loop's scheduling stated as weak      *)
(*               fairness, for the liveness claims.                        *)
(*   SpecNotify  the notification handler applied to byte sequences.       *)
(*                                                                         *)
(* asyncio is cooperative: the code between two suspension points runs     *)
(* atomically.  Every action below is one such run: it starts where a      *)
(* task was suspended (an awaited transport call, a sleep, a lock that     *)
(* was held) and runs the code up to the next suspension.  The code        *)
(* blocks are operators from a state record to a state record, named as    *)
(* in the source, and an action installs the record a block returns.       *)
(*                                                                         *)
(* The class has no public method that connects or sends.  The operations  *)
(* of Spec are the calls an embedding program makes on a client object:    *)
(* _send_command, _ensure_connected, _send_command_while_connected and     *)
(* stop.  The source is modelled as it stands:                             *)
(*   - _send_command calls self._resolve_protocol (line 401), which the    *)
(*     class does not define: every _send_command that gets past           *)
(*     _ensure_connected raises AttributeError there, the four commands    *)
(*     of the handshake (lines 245-251) included.  Lines 246-259 and       *)
(*     402-404 are therefore never executed; the write path (lines         *)
(*     406-452) runs only for a direct _send_command_while_connected.      *)
(*   - models.py cannot be executed: its class statement raises            *)
(*     ValueError (see LD2410BLEState).  The specifications describe the   *)
(*     methods of a client object whose __init__ ran with that outcome     *)
(*     in the place of the state object.                                   *)
(***************************************************************************)
EXTENDS Integers, Sequences, FiniteSets, TLC

VARIABLES
    \* ---- the client object (LD2410BLE.__init__, lines 57-71)
    client,              \* self._client: 0 is None, c > 0 the c-th connection
    connectLock,         \* self._connect_lock: its holder, or Free
    operationLock,       \* self._operation_lock: its holder, or Free
    waiting,             \* the tasks waiting for each lock, oldest first
    timerHandle,         \* self._disconnect_timer is not None
    expectedDisconnect,  \* self._expected_disconnect
    readChar,            \* self._read_char: "unset" (no such attribute), "none", "char"
    buf,                 \* self._buf
    state,               \* self._state
    callbacks,           \* self._callbacks
    \* ---- the event loop and the transport
    pendingJobs,         \* call_later jobs scheduled, not cancelled, not yet fired
    connCount,           \* connections establish_connection has returned so far
    live,                \* connections whose is_connected is true
    \* ---- the tasks
    pc,                  \* where each task is suspended
    op,                  \* what the task was asked to do: none, send, ensure,
                         \* write (_send_command_while_connected), stop, timed
    hs,                  \* the handshake command the task is sending (0: none)
    ucmd,                \* number of byte sequences of the caller's command
    wr,                  \* writes completed in the current attempt
    wrClient,            \* the connection the write in flight was issued on
    attempt,             \* attempt number inside retry_bluetooth_connection_error
    exc,                 \* the exception being handled by _send_command_locked
    ecClient,            \* the local `client` of _ensure_connected
    dcClient,            \* the local `client` of _execute_disconnect
    dcReadChar,          \* the local `read_char` of _execute_disconnect
    dctx,                \* who called _execute_disconnect: stop, timed, forced
    result,              \* how the task's last operation ended
    \* ---- history (observations only; no guard reads them except budgets)
    hsWrites,            \* per connection: the handshake commands written to
                         \* it, in order (1..4)
    midCmd,              \* tasks between the first and the last write of a command
    nWriteCalls,         \* per task: write_gatt_char calls of the current send
    nWriteFails,         \* per task: those that raised a transient failure
    nForced,             \* per task: forced disconnects completed in the current send
    stopSinceArm,        \* stop() has returned and the timer was not armed since
    firesSinceArm,       \* timer callbacks run since the timer was last armed
    nFaults, calls,   \* budgets used
    \* ---- what SpecNotify records of the calls it makes
    handles,             \* callbacks an unregistration handle was returned for
    nphase,              \* the last call: "idle" (none yet), "register",
                         \* "unregister", "whole", "first", "second"
    nraised,             \* the exception the last call raised, or "none"
    nfired,              \* callback invocations of the last call, in order
    nprev,               \* self._buf before the last notification
    nprevState,          \* self._state before the last notification
    ndata,               \* the bytes of the last notification
    nframe,              \* the frame being delivered in two notifications
    ncut,                \* where it was split
    nstart,              \* self._buf before its first part
    nwhole               \* what one notification with all of nframe would
                         \* have done in place of the first part

connVars ==
    << client, connectLock, operationLock, waiting, timerHandle,
       expectedDisconnect, readChar, pendingJobs, connCount, live,
       pc, op, hs, ucmd, wr, wrClient, attempt, exc, ecClient,
       dcClient, dcReadChar, dctx, result, hsWrites, midCmd, nWriteCalls,
       nWriteFails, nForced, stopSinceArm, firesSinceArm, nFaults,
       calls >>

notifyVars ==
    << buf, state, callbacks, handles, nphase, nraised, nfired, nprev,
       nprevState, ndata, nframe, ncut, nstart, nwhole >>

vars == << connVars, notifyVars >>

-----------------------------------------------------------------------------
(* Bounds of the model. *)

MaxCalls == 3     \* operations the callers may start
MaxCallbacks == 2 \* registrations in the callback list at a time
MaxExtra == 3     \* bytes that may follow a frame in its notification
MaxDouble == 66   \* bytes the buffer may hold after a notification with two
                  \* frames is appended
MaxBuf == 46      \* bytes the buffer may hold after a notification is appended
MaxFaults == 2    \* times the transport may misbehave: fail a write on a live
                  \* link, drop the link, or come without the characteristics

(* Program constants. *)

DEFAULT_ATTEMPTS == 3

Callers == {"t1", "t2"}

\* The tasks _disconnect creates (line 347), in the order they are created.
\* A job is scheduled only by a call of _send_command or _ensure_connected,
\* and a call leaves at most one job behind, so no more tasks than calls
\* exist at a time (TimerTaskAtHand).
TimerNames == << "d1", "d2", "d3", "d4", "d5", "d6" >>
TimerOrder == SubSeq(TimerNames, 1, MaxCalls)
TimerTasks == { TimerOrder[i] : i \in 1..Len(TimerOrder) }
Tasks == Callers \cup TimerTasks
Free == "free"

-----------------------------------------------------------------------------
(* The connection state as one record, so that a block of code is an       *)
(* operator from record to record, and the record an action installs.      *)

St ==
    [ client |-> client, connectLock |-> connectLock,
      operationLock |-> operationLock, waiting |-> waiting,
      timerHandle |-> timerHandle,
      expectedDisconnect |-> expectedDisconnect, readChar |-> readChar,
      pendingJobs |-> pendingJobs, connCount |-> connCount, live |-> live,
      pc |-> pc, op |-> op, hs |-> hs,
      ucmd |-> ucmd, wr |-> wr, wrClient |-> wrClient, attempt |-> attempt,
      exc |-> exc, ecClient |-> ecClient,
      dcClient |-> dcClient, dcReadChar |-> dcReadChar, dctx |-> dctx,
      result |-> result, hsWrites |-> hsWrites, midCmd |-> midCmd,
      nWriteCalls |-> nWriteCalls, nWriteFails |-> nWriteFails,
      nForced |-> nForced, stopSinceArm |-> stopSinceArm,
      firesSinceArm |-> firesSinceArm,
      nFaults |-> nFaults, calls |-> calls ]

Install(s) ==
    /\ client' = s.client
    /\ connectLock' = s.connectLock
    /\ operationLock' = s.operationLock
    /\ waiting' = s.waiting
    /\ timerHandle' = s.timerHandle
    /\ expectedDisconnect' = s.expectedDisconnect
    /\ readChar' = s.readChar
    /\ pendingJobs' = s.pendingJobs
    /\ connCount' = s.connCount
    /\ live' = s.live
    /\ pc' = s.pc
    /\ op' = s.op
    /\ hs' = s.hs
    /\ ucmd' = s.ucmd
    /\ wr' = s.wr
    /\ wrClient' = s.wrClient
    /\ attempt' = s.attempt
    /\ exc' = s.exc
    /\ ecClient' = s.ecClient
    /\ dcClient' = s.dcClient
    /\ dcReadChar' = s.dcReadChar
    /\ dctx' = s.dctx
    /\ result' = s.result
    /\ hsWrites' = s.hsWrites
    /\ midCmd' = s.midCmd
    /\ nWriteCalls' = s.nWriteCalls
    /\ nWriteFails' = s.nWriteFails
    /\ nForced' = s.nForced
    /\ stopSinceArm' = s.stopSinceArm
    /\ firesSinceArm' = s.firesSinceArm
    /\ nFaults' = s.nFaults
    /\ calls' = s.calls

-----------------------------------------------------------------------------
(* Blocks of ld2410_ble.py.                                                *)

\* `self._client and self._client.is_connected` (lines 216, 221, 367)
Connected(s) == s.client # 0 /\ s.client \in s.live

\* A variant of _reset_disconnect_timer that schedules the new job without
\* cancelling the one the handle names.
reset_disconnect_timer_nocancel(s) ==
    [s EXCEPT !.pendingJobs = s.pendingJobs + 1,
              !.timerHandle = TRUE,
              !.expectedDisconnect = FALSE,
              !.stopSinceArm = FALSE,
              !.firesSinceArm = 0]

\* _reset_disconnect_timer (lines 322-329): cancel the job the handle names,
\* clear the expected-disconnect flag, schedule a new job.
reset_disconnect_timer(s) ==
    [s EXCEPT !.pendingJobs =
                  (IF s.timerHandle THEN s.pendingJobs - 1 ELSE s.pendingJobs) + 1,
              !.timerHandle = TRUE,
              !.expectedDisconnect = FALSE,
              !.stopSinceArm = FALSE,
              !.firesSinceArm = 0]

\* The task's locals and the record of its last operation, forgotten.
Forget(s, t) ==
    [s EXCEPT !.pc[t] = "idle", !.op[t] = "none", !.hs[t] = 0, !.ucmd[t] = 0,
              !.wr[t] = 0, !.wrClient[t] = 0, !.attempt[t] = 0,
              !.exc[t] = "none",
              !.ecClient[t] = 0, !.dcClient[t] = 0, !.dcReadChar[t] = "none",
              !.dctx[t] = "none", !.result[t] = "none", !.nWriteCalls[t] = 0,
              !.nWriteFails[t] = 0, !.nForced[t] = 0]

\* The task's operation ends: it returned (r = "ok") or raised r to its
\* caller.  A caller's task stays "done" for one state, in which the outcome
\* can be read; a task the timer created has no caller.
Finish(s, t, r) ==
    IF t \in TimerTasks
    THEN Forget(s, t)
    ELSE [s EXCEPT !.pc[t] = "done", !.result[t] = r]

\* An exception leaves every `async with` block the task is inside: the
\* operation lock (line 421) and, during the handshake, the connect lock
\* (line 219); it then reaches the caller.
Raise(s, t, e) ==
    Finish([s EXCEPT !.operationLock = IF @ = t THEN Free ELSE @,
                     !.connectLock = IF @ = t THEN Free ELSE @,
                     !.midCmd = @ \ {t}],
           t, e)

\* `async with lock` (lines 219, 360, 421) can take the lock at once: it is
\* free and no task is waiting for it.  A task that finds the lock held, or
\* released to a task that has not run yet, waits behind the others.
CanTake(holder, queue) == holder = Free /\ queue = << >>

\* The lock is handed to the task that has waited longest.
IsNext(holder, queue, t) == holder = Free /\ queue # << >> /\ Head(queue) = t

\* Number of byte sequences of the command being sent (lines 451-452).
CommandLen(s, t) == s.ucmd[t]

\* _execute_command_locked (lines 448-452) up to its first write: the
\* assertion, then write_gatt_char is called on the connection at hand.
execute_command_locked(s, t) ==
    IF s.client = 0
    THEN Raise(s, t, "AssertionError")
    ELSE [s EXCEPT !.pc[t] = "write", !.wr[t] = 0, !.wrClient[t] = s.client]

\* The locals of _execute_command_locked end when it raises.
CommandLocalsEnd(s, t) == [s EXCEPT !.wr[t] = 0, !.wrClient[t] = 0]

\* retry_bluetooth_connection_error(DEFAULT_ATTEMPTS) (line 371) after an
\* attempt raised e, one of the exceptions it retries: the last attempt
\* re-raises, any other sleeps and tries again.
retry_bluetooth_connection_error(s, t, e) ==
    IF s.attempt[t] >= DEFAULT_ATTEMPTS
    THEN Raise(s, t, e)
    ELSE [s EXCEPT !.pc[t] = "retry_sleep", !.exc[t] = "none"]

\* _execute_disconnect returned to its caller (lines 190, 356, 386-387, 393-394).
\* The locals of _execute_disconnect end with the call.
DisconnectLocalsEnd(s, t) ==
    [s EXCEPT !.dcClient[t] = 0, !.dcReadChar[t] = "none", !.dctx[t] = "none"]

DisconnectReturn(s, t) ==
    IF s.dctx[t] = "forced"
    THEN retry_bluetooth_connection_error(
             DisconnectLocalsEnd([s EXCEPT !.nForced[t] = @ + 1], t),
             t, s.exc[t])
    ELSE Finish([s EXCEPT !.stopSinceArm = @ \/ (s.dctx[t] = "stop")], t, "ok")

\* _execute_disconnect raised e to its caller.
DisconnectRaise(s, t, e) ==
    IF s.dctx[t] = "forced"
    THEN retry_bluetooth_connection_error(DisconnectLocalsEnd(s, t), t, e)
    ELSE Finish(s, t, e)

\* _execute_disconnect with the connect lock held (lines 361-367).  __init__
\* never assigns _read_char: reading it before a connection resolved the
\* characteristics raises AttributeError.
DisconnectLocked(s, t) ==
    IF s.readChar = "unset"
    THEN DisconnectRaise([s EXCEPT !.connectLock = Free], t, "AttributeError")
    ELSE LET c == s.client
             s1 == [s EXCEPT !.dcReadChar[t] = s.readChar,
                             !.dcClient[t] = c,
                             !.expectedDisconnect = TRUE,
                             !.client = 0,
                             !.readChar = "none"]
         IN  IF c # 0 /\ c \in s.live
             THEN [s1 EXCEPT !.pc[t] = "dc_stop_notify"]
             ELSE DisconnectReturn([s1 EXCEPT !.connectLock = Free], t)

\* _execute_disconnect (lines 358-360): take the connect lock or wait for it.
execute_disconnect(s, t, ctx) ==
    LET s1 == [s EXCEPT !.dctx[t] = ctx]
    IN  IF CanTake(s1.connectLock, s1.waiting.connect)
        THEN DisconnectLocked([s1 EXCEPT !.connectLock = t], t)
        ELSE [s1 EXCEPT !.pc[t] = "dc_wait",
                        !.waiting.connect = Append(@, t)]

\* _send_command_locked's first attempt under the retry wrapper (lines 371-375).
send_command_locked(s, t) ==
    execute_command_locked([s EXCEPT !.attempt[t] = 1], t)

\* A variant of _send_command_while_connected that does not take the lock.
send_command_while_connected_nolock(s, t) == send_command_locked(s, t)

\* _send_command_while_connected (lines 406-423): take the operation lock or
\* wait for it.
send_command_while_connected(s, t) ==
    IF CanTake(s.operationLock, s.waiting.operation)
    THEN send_command_locked([s EXCEPT !.operationLock = t], t)
    ELSE [s EXCEPT !.pc[t] = "op_wait",
                   !.waiting.operation = Append(@, t)]

\* _ensure_connected has returned (lines 218, 223).  Called by the embedding
\* program, it returns to it.  Called by _send_command (line 400), line 401
\* is next: `await self._resolve_protocol()`.  The class defines no
\* _resolve_protocol, so the attribute lookup raises AttributeError, which
\* nothing catches: it leaves _send_command and, when the command is one of
\* the handshake (line 245), the connect lock's block of the
\* _ensure_connected that sent it.
EnsureReturn(s, t) ==
    IF s.op[t] = "ensure" /\ s.hs[t] = 0
    THEN Finish(s, t, "ok")
    ELSE Raise(s, t, "AttributeError")

\* _ensure_connected with the connect lock held (lines 221-225): the second
\* check, then the call of establish_connection.
ConnectLocked(s, t) ==
    IF Connected(s)
    THEN EnsureReturn([reset_disconnect_timer(s) EXCEPT !.connectLock = Free], t)
    ELSE [s EXCEPT !.pc[t] = "ec_establish"]

\* _ensure_connected (lines 208-219): the unlocked check, then the lock.  A
\* task that already holds the lock (the handshake) waits for itself.
ensure_connected(s, t) ==
    IF Connected(s)
    THEN EnsureReturn(reset_disconnect_timer(s), t)
    ELSE IF CanTake(s.connectLock, s.waiting.connect)
         THEN ConnectLocked([s EXCEPT !.connectLock = t], t)
         ELSE [s EXCEPT !.pc[t] = "ec_wait",
                        !.waiting.connect = Append(@, t)]

\* _send_command (lines 396-401): _ensure_connected, then line 401 (see
\* EnsureReturn).  Lines 402-404 are not reached.
send_command(s, t) == ensure_connected(s, t)

\* _resolve_characteristics, called at lines 234 and 237: the notify and the
\* write characteristic are looked up in the services and kept in
\* self._read_char and self._write_char; the result tells whether both
\* were found.
resolve_characteristics(s, found) ==
    [s EXCEPT !.readChar = IF found THEN "char" ELSE "none"]

\* _ensure_connected after the characteristics were looked up (lines 239-245):
\* publish the handle whatever the lookup found, arm the timer, send the
\* first command of the handshake, CMD_BT_PASS.
Publish(s, t, found) ==
    LET s1 == [resolve_characteristics(s, found) EXCEPT
                 !.client = s.ecClient[t]]
    IN  send_command([reset_disconnect_timer(s1) EXCEPT !.hs[t] = 1], t)

\* A command was written whole (lines 423-424): the operation lock is
\* released and _send_command_while_connected returns.
SendReturn(s, t) ==
    Finish([s EXCEPT !.operationLock = Free, !.midCmd = @ \ {t}], t, "ok")

\* The write_gatt_char in flight (line 452) ends with outcome o, and the
\* code that follows.  After a write that returned, the loop reads
\* self._client again for the next byte sequence: None has no
\* write_gatt_char, an AttributeError that lines 376/388 do not catch and
\* the retry wrapper retries.
WriteDone(s, t, o) ==
    CASE o = "ok" ->
           LET n == s.wr[t] + 1
               s1 == [s EXCEPT
                        !.wr[t] = n,
                        !.nWriteCalls[t] = @ + 1,
                        !.hsWrites[s.wrClient[t]] =
                            IF s.hs[t] # 0 THEN Append(@, s.hs[t]) ELSE @,
                        !.midCmd = IF n < CommandLen(s, t)
                                   THEN @ \cup {t} ELSE @ \ {t}]
           IN  IF n = CommandLen(s, t) THEN SendReturn(s1, t)
               ELSE IF s.client = 0
                    THEN retry_bluetooth_connection_error(
                             CommandLocalsEnd([s1 EXCEPT !.midCmd = @ \ {t}], t),
                             t, "AttributeError")
                    ELSE [s1 EXCEPT !.wrClient[t] = s.client]
      [] o = "BleakDBusError" ->
           \* lines 376-378: sleep BLEAK_BACKOFF_TIME before disconnecting
           CommandLocalsEnd(
               [s EXCEPT !.pc[t] = "backoff", !.exc[t] = o, !.midCmd = @ \ {t},
                         !.nFaults = @ + 1,
                         !.nWriteCalls[t] = @ + 1,
                         !.nWriteFails[t] = @ + 1], t)
      [] OTHER ->
           \* lines 388-393
           execute_disconnect(
               CommandLocalsEnd(
                   [s EXCEPT !.exc[t] = "BleakError", !.midCmd = @ \ {t},
                             !.nFaults = IF s.wrClient[t] \in s.live
                                         THEN @ + 1 ELSE @,
                             !.nWriteCalls[t] = @ + 1,
                             !.nWriteFails[t] = @ + 1], t),
               t, "forced")

\* What the transport can answer to the task's write in flight: on a link
\* that is down it raises; on a live link it may fail while faults remain.
WriteOutcomes(s, t) ==
    IF s.wrClient[t] \notin s.live THEN {"BleakError"}
    ELSE {"ok"} \cup (IF s.nFaults < MaxFaults
                      THEN {"BleakError", "BleakDBusError"} ELSE {})

-----------------------------------------------------------------------------

(* The actions of Spec: one per resumption of a task, plus the callers'    *)
(* requests, the timer callback and the device dropping the link.          *)

\* No finished operation is waiting to be read: the outcome of an operation
\* is read in the state it ends in, before anything else runs.
NoneDone == \A t \in Callers : pc[t] # "done"

\* A caller may start an operation.  The callers are interchangeable: the
\* second one is used only while the first is busy.
CanStart(t) ==
    /\ pc[t] = "idle"
    /\ calls < MaxCalls
    /\ t = "t1" \/ pc["t1"] # "idle"

\* The caller has read the outcome of its operation.
Return(t) ==
    /\ pc[t] = "done"
    /\ Install(Forget(St, t))
    /\ UNCHANGED notifyVars

\* A caller awaits _send_command (lines 396-404).
StartSend(t) ==
    /\ NoneDone
    /\ CanStart(t)
    /\ Install(send_command(
           [St EXCEPT !.op[t] = "send", !.calls = @ + 1], t))
    /\ UNCHANGED notifyVars

\* A caller awaits _ensure_connected (lines 208-259).
StartEnsure(t) ==
    /\ NoneDone
    /\ CanStart(t)
    /\ Install(ensure_connected(
           [St EXCEPT !.op[t] = "ensure", !.calls = @ + 1], t))
    /\ UNCHANGED notifyVars

\* A caller awaits _send_command_while_connected with a command of n byte
\* sequences (lines 406-446).
StartWrite(t, n) ==
    /\ NoneDone
    /\ CanStart(t)
    /\ Install(send_command_while_connected(
           [St EXCEPT !.op[t] = "write", !.ucmd[t] = n, !.calls = @ + 1], t))
    /\ UNCHANGED notifyVars

\* A caller calls stop (lines 187-190).
Stop(t) ==
    /\ NoneDone
    /\ CanStart(t)
    /\ Install(execute_disconnect(
           [St EXCEPT !.op[t] = "stop", !.calls = @ + 1], t, "stop"))
    /\ UNCHANGED notifyVars

\* The connect lock is released to a task waiting in _ensure_connected.
EcAcquire(t) ==
    /\ NoneDone
    /\ pc[t] = "ec_wait"
    /\ IsNext(connectLock, waiting.connect, t)
    /\ Install(ConnectLocked(
           [St EXCEPT !.connectLock = t, !.waiting.connect = Tail(@)], t))
    /\ UNCHANGED notifyVars

\* establish_connection returns a new connection (lines 225-237); found is
\* what _resolve_characteristics answers on the services it came with.
EstablishDone(t, found) ==
    /\ NoneDone
    /\ pc[t] = "ec_establish"
    /\ found \/ nFaults < MaxFaults
    /\ LET c == connCount + 1
           s1 == [St EXCEPT !.connCount = c, !.live = @ \cup {c},
                            !.ecClient[t] = c,
                            !.nFaults = IF found THEN @ ELSE @ + 1]
       IN  Install(IF found THEN Publish(s1, t, TRUE)
                            ELSE [s1 EXCEPT !.pc[t] = "ec_get_services"])
    /\ UNCHANGED notifyVars

\* establish_connection raises BleakNotFoundError (line 225): nothing in
\* _ensure_connected or _send_command catches it, and both are outside the
\* retry wrapper of line 371, so it leaves the connect lock's block and
\* reaches the caller.
establish_failed_retried(s, t) == [s EXCEPT !.pc[t] = "ec_establish"]

establish_failed(s, t) == Raise(s, t, "BleakNotFoundError")

\* establish_connection raises: the device was not found (line 225).
EstablishFail(t) ==
    /\ NoneDone
    /\ pc[t] = "ec_establish"
    /\ nFaults < MaxFaults
    /\ Install(establish_failed([St EXCEPT !.nFaults = @ + 1], t))
    /\ UNCHANGED notifyVars

\* client.get_services() returns (line 237); the second lookup's answer is
\* assigned and not read again.
GetServicesDone(t, found) ==
    /\ NoneDone
    /\ pc[t] = "ec_get_services"
    /\ Install(Publish(St, t, found))
    /\ UNCHANGED notifyVars

\* The operation lock is released to a task waiting at line 421.
OpAcquire(t) ==
    /\ NoneDone
    /\ pc[t] = "op_wait"
    /\ IsNext(operationLock, waiting.operation, t)
    /\ Install(send_command_locked(
           [St EXCEPT !.operationLock = t, !.waiting.operation = Tail(@)], t))
    /\ UNCHANGED notifyVars

\* One write_gatt_char completes or raises (line 452).
Write(t) ==
    /\ NoneDone
    /\ pc[t] = "write"
    /\ \E o \in WriteOutcomes(St, t) : Install(WriteDone(St, t, o))
    /\ UNCHANGED notifyVars

\* asyncio.sleep(BLEAK_BACKOFF_TIME) is over (lines 378-386).
Backoff(t) ==
    /\ NoneDone
    /\ pc[t] = "backoff"
    /\ Install(execute_disconnect(St, t, "forced"))
    /\ UNCHANGED notifyVars

\* The connect lock is released to a task waiting in _execute_disconnect.
DcAcquire(t) ==
    /\ NoneDone
    /\ pc[t] = "dc_wait"
    /\ IsNext(connectLock, waiting.connect, t)
    /\ Install(DisconnectLocked(
           [St EXCEPT !.connectLock = t, !.waiting.connect = Tail(@)], t))
    /\ UNCHANGED notifyVars

\* client.stop_notify(read_char) returns or raises (line 368).  No
\* connection is ever subscribed (line 257 is not reached), so the call
\* stops notifications that were never started, or names no characteristic
\* at all (read_char is None); what the transport answers is not this
\* repository's to decide: it may return or raise.  Nothing catches a raise:
\* it leaves the connect lock's block before client.disconnect() (line 369),
\* and the transport stays open.
StopNotifyDone(t, returns) ==
    /\ NoneDone
    /\ pc[t] = "dc_stop_notify"
    /\ Install(IF returns
               THEN [St EXCEPT !.pc[t] = "dc_disconnect"]
               ELSE DisconnectRaise([St EXCEPT !.connectLock = Free],
                                    t, "BleakError"))
    /\ UNCHANGED notifyVars

\* client.disconnect() returns (line 369); the connect lock is released.
DisconnectDone(t) ==
    /\ NoneDone
    /\ pc[t] = "dc_disconnect"
    /\ Install(DisconnectReturn(
           [St EXCEPT !.live = @ \ {dcClient[t]},
                      !.connectLock = Free], t))
    /\ UNCHANGED notifyVars

\* The retry wrapper's sleep is over: the next attempt (line 375).
RetrySleepDone(t) ==
    /\ NoneDone
    /\ pc[t] = "retry_sleep"
    /\ Install(execute_command_locked([St EXCEPT !.attempt[t] = @ + 1], t))
    /\ UNCHANGED notifyVars

\* The task the next firing of the timer creates: the first one not in use.
NewTimerTask(d) ==
    \E i \in 1..Len(TimerOrder) :
        /\ d = TimerOrder[i]
        /\ pc[d] = "idle"
        /\ \A j \in 1..(i - 1) : pc[TimerOrder[j]] # "idle"

\* The event loop runs its ready callbacks in the order they were scheduled
\* (call_soon), and a job that comes due is put behind them: the first turn
\* of the task an earlier job created has run before a later job fires.
FirstTurnsTaken == \A e \in TimerTasks : pc[e] # "dc_start"

\* A job that is due finds a task to create: the names never run out.
TimerTaskAtHand == pendingJobs > 0 => \E d \in TimerTasks : NewTimerTask(d)

\* A scheduled job fires: _disconnect (lines 344-347) clears the handle and
\* creates a task, d, that runs _execute_timed_disconnect (lines 349-356).
\* The task has its first turn later, in TimedStart.
TimerFire(d) ==
    /\ NoneDone
    /\ pendingJobs > 0
    /\ FirstTurnsTaken
    /\ NewTimerTask(d)
    /\ Install([St EXCEPT !.timerHandle = FALSE,
                          !.pendingJobs = @ - 1,
                          !.firesSinceArm = @ + 1,
                          !.op[d] = "timed", !.dctx[d] = "timed",
                          !.pc[d] = "dc_start"])
    /\ UNCHANGED notifyVars

\* The task the timer created runs its first turn (lines 349-360).
TimedStart(d) ==
    /\ NoneDone
    /\ pc[d] = "dc_start"
    /\ Install(execute_disconnect(St, d, "timed"))
    /\ UNCHANGED notifyVars

\* The device drops the link: is_connected turns false.  _disconnected
\* (lines 331-342) only logs.
Drop(c) ==
    /\ NoneDone
    /\ c \in live
    /\ nFaults < MaxFaults
    /\ live' = live \ {c}
    /\ nFaults' = nFaults + 1
    /\ UNCHANGED << client, connectLock, operationLock, waiting, timerHandle,
                    expectedDisconnect, readChar, pendingJobs, connCount, pc,
                    op, hs, ucmd, wr, wrClient, attempt, exc, ecClient, dcClient,
                    dcReadChar, dctx, result, hsWrites, midCmd, nWriteCalls,
                    nWriteFails, nForced, stopSinceArm,
                    firesSinceArm, calls >>
    /\ UNCHANGED notifyVars

\* A task runs on from where it was suspended.
TaskStep(t) ==
    \/ EcAcquire(t)
    \/ \E found \in BOOLEAN : EstablishDone(t, found)
    \/ EstablishFail(t)
    \/ \E found \in BOOLEAN : GetServicesDone(t, found)
    \/ OpAcquire(t)
    \/ Write(t)
    \/ Backoff(t)
    \/ TimedStart(t)
    \/ DcAcquire(t)
    \/ \E returns \in BOOLEAN : StopNotifyDone(t, returns)
    \/ DisconnectDone(t)
    \/ RetrySleepDone(t)

-----------------------------------------------------------------------------
\* The state after LD2410BLE.__init__ (lines 57-71), no task running.
InitConn ==
    /\ client = 0
    /\ connectLock = Free
    /\ operationLock = Free
    /\ waiting = [connect |-> << >>, operation |-> << >>]
    /\ timerHandle = FALSE
    /\ expectedDisconnect = FALSE
    /\ readChar = "unset"
    /\ pendingJobs = 0
    /\ connCount = 0
    /\ live = {}
    /\ pc = [t \in Tasks |-> "idle"]
    /\ op = [t \in Tasks |-> "none"]
    /\ hs = [t \in Tasks |-> 0]
    /\ ucmd = [t \in Tasks |-> 0]
    /\ wr = [t \in Tasks |-> 0]
    /\ wrClient = [t \in Tasks |-> 0]
    /\ attempt = [t \in Tasks |-> 0]
    /\ exc = [t \in Tasks |-> "none"]
    /\ ecClient = [t \in Tasks |-> 0]
    /\ dcClient = [t \in Tasks |-> 0]
    /\ dcReadChar = [t \in Tasks |-> "none"]
    /\ dctx = [t \in Tasks |-> "none"]
    /\ result = [t \in Tasks |-> "none"]
    /\ hsWrites = [c \in 1..MaxCalls |-> << >>]
    /\ midCmd = {}
    /\ nWriteCalls = [t \in Tasks |-> 0]
    /\ nWriteFails = [t \in Tasks |-> 0]
    /\ nForced = [t \in Tasks |-> 0]
    /\ stopSinceArm = FALSE
    /\ firesSinceArm = 0
    /\ nFaults = 0
    /\ calls = 0

-----------------------------------------------------------------------------
(* The frame grammar of const.py.  Bytes are 0..255, a byte string is a    *)
(* sequence of them.                                                       *)

frame_start == << 244, 243, 242, 241 >>
frame_head == 170
frame_tail == 85
frame_check == 0
frame_end == << 248, 247, 246, 245 >>

\* frame_tail + frame_check + frame_end, the end of frame_regex
Trailer == << frame_tail, frame_check >> \o frame_end

\* "." of a pattern compiled without DOTALL: any byte but the line feed.
Dot(x) == x # 10

\* The 17 bytes of frame_regex before the engineering data match at
\* position i of b: start, length (..), mode (1 or 2), head, target state
\* (0 to 3), then eight bytes of distances and energies, each a ".".
PrefixAt(b, i) ==
    /\ i + 16 <= Len(b)
    /\ \A j \in 1..4 : b[i + j - 1] = frame_start[j]
    /\ Dot(b[i + 4]) /\ Dot(b[i + 5])
    /\ b[i + 6] \in {1, 2}
    /\ b[i + 7] = frame_head
    /\ b[i + 8] \in 0..3
    /\ \A j \in 9..16 : Dot(b[i + j])

TrailerAt(b, k) == k + 5 <= Len(b) /\ \A j \in 1..6 : b[k + j - 1] = Trailer[j]

\* Lengths n >= 1 of an engineering_data group (.+?) after which the trailer
\* matches, for a frame that starts at i.
EngLens(b, i) ==
    { n \in 1..(Len(b) - i - 22) : /\ TrailerAt(b, i + 17 + n)
                                   /\ \A j \in 1..n : Dot(b[i + 16 + j]) }

Min(S) == CHOOSE x \in S : \A y \in S : x <= y

\* frame_regex matches at i.  The optional group is tried before its
\* absence, and inside it the lazy .+? grows a byte at a time, so the match
\* is the one with the shortest non-empty engineering data, and the one
\* with none only when there is no other.
MatchesAt(b, i) ==
    PrefixAt(b, i) /\ (EngLens(b, i) # {} \/ TrailerAt(b, i + 17))

EngLen(b, i) == IF EngLens(b, i) # {} THEN Min(EngLens(b, i)) ELSE 0

\* re.search(frame_regex, b): the match at the leftmost position, as
\* [start, eng, end] with 1-based start and end (the last matched byte),
\* or None.
None == [start |-> 0, eng |-> 0, end |-> 0]

search(b) ==
    LET starts == { i \in 1..Len(b) : MatchesAt(b, i) }
    IN  IF starts = {} THEN None
        ELSE LET i == Min(starts)
                 n == EngLen(b, i)
             IN  [start |-> i, eng |-> n, end |-> i + 22 + n]

\* The class statement of models.py (lines 6-19).  The dataclass decorator
\* refuses a field whose default is a list, and motion_energy_gates and
\* static_energy_gates (lines 18-19) have one: the statement raises
\* ValueError and defines no class, so that LD2410BLEState() (line 64)
\* yields no state object.  This is what stands in the place of one.
LD2410BLEState == [raised |-> "ValueError"]

\* What a call leaves behind: the buffer, the state, the exception raised
\* and the callback invocations made.
Outcome(b, st, e, f) == [buf |-> b, state |-> st, raised |-> e, fired |-> f]

\* _notification_handler (lines 263-320) on a client whose buffer is b and
\* state is st, for the notification data.
\*   A match: line 270 cuts the buffer after the match, and line 274 calls
\*   self.intify(target_state); intify is defined in the class with the one
\*   parameter "state", so the bound call passes two arguments: TypeError.
\*   No match: the body of "if (msg)" is skipped and line 299, outside it,
\*   reads sensor_dict, which was never bound: UnboundLocalError.
\* Neither path reaches the assignment of self._state (line 298) or
\* _fire_callbacks (line 320).
notification_handler(b, st, data) ==
    LET all == b \o data
        msg == search(all)
    IN  IF msg # None
        THEN Outcome(SubSeq(all, msg.end + 1, Len(all)), st, "TypeError", << >>)
        ELSE Outcome(all, st, "UnboundLocalError", << >>)

InitNotify ==
    /\ buf = << >>
    /\ state = LD2410BLEState
    /\ callbacks = << >>
    /\ handles = {}
    /\ nphase = "idle"
    /\ nraised = "none"
    /\ nfired = << >>
    /\ nprev = buf
    /\ nprevState = state
    /\ ndata = << >>
    /\ nframe = << >>
    /\ ncut = 0
    /\ nstart = buf
    /\ nwhole = Outcome(buf, state, "none", << >>)

Init == InitConn /\ InitNotify

Next ==
    \/ \E t \in Callers : StartSend(t)
    \/ \E t \in Callers : StartEnsure(t)
    \/ \E t \in Callers, n \in 1..2 : StartWrite(t, n)
    \/ \E t \in Callers : Stop(t)
    \/ \E t \in Tasks : TaskStep(t)
    \/ \E d \in TimerTasks : TimerFire(d)
    \/ \E c \in 1..MaxCalls : Drop(c)
    \/ \E t \in Callers : Return(t)

Spec == Init /\ [][Next]_vars

\* The event loop keeps running: while a task can resume, a caller can be
\* handed its result or the timer's job is due, one of them is run.  Every
\* operation takes finitely many steps, so this is all the liveness claims
\* need.
Loop ==
    \/ \E t \in Tasks : TaskStep(t)
    \/ \E t \in Callers : Return(t)
    \/ \E d \in TimerTasks : TimerFire(d)

FairSpec == Spec /\ WF_vars(Loop)

-----------------------------------------------------------------------------
(* SpecNotify: the device's notifications and the consumer's callbacks.    *)
(* The handler is synchronous, so each call is one action.                 *)

\* The frames the device sends, laid out as frame_regex reads them: basic
\* reports (mode 2) and engineering reports (mode 1) that carry the 20-byte
\* sub-frame of engineering_frame_regex.  The length field counts the bytes
\* between itself and the trailer's end marker.
TargetStates == 0..3
Energies == {10, 80}
EngineeringData ==
    << 8, 8 >> \o << 11, 12, 13, 14, 15, 16, 17, 18, 19 >>
               \o << 21, 22, 23, 24, 25, 26, 27, 28, 29 >>
Engineering == { << >>, EngineeringData }

Frame(ts, me, eng) ==
    frame_start \o << 13 + Len(eng), 0 >>
                \o << IF eng = << >> THEN 2 ELSE 1 >>
                \o << frame_head, ts >>
                \o << 120, 0 >> \o << me >> \o << 200, 0 >> \o << 60 >>
                \o << 250, 0 >> \o eng \o Trailer

Frames == { Frame(ts, me, eng) : ts \in TargetStates, me \in Energies,
                                 eng \in Engineering }

CallbackIds == {"cb1", "cb2"}

\* One call of the handler with data, and what is recorded of it.
Notify(data, max) ==
    LET o == notification_handler(buf, state, data)
    IN  /\ Len(buf) + Len(data) <= max
        /\ buf' = o.buf
        /\ state' = o.state
        /\ nraised' = o.raised
        /\ nfired' = o.fired
        /\ nprev' = buf
        /\ nprevState' = state
        /\ ndata' = data
        /\ UNCHANGED << callbacks, handles >>

\* A call is recorded until NotifyReturn drops the record; the next call
\* starts after that.  The two parts of a split frame are consecutive
\* calls, with nothing between them.
NoSplitPending == nphase = "idle"

\* A frame arrives in one notification.
DeliverWhole(f) ==
    /\ NoSplitPending
    /\ Notify(f, MaxBuf)
    /\ nphase' = "whole"
    /\ nframe' = f
    /\ ncut' = 0
    /\ nstart' = buf
    /\ nwhole' = notification_handler(buf, state, f)
    /\ UNCHANGED connVars

\* The bytes that may follow a frame in its notification: none of them
\* starts or ends a frame.
Extras == { [i \in 1..k |-> i] : k \in 1..MaxExtra }

\* A frame arrives followed by extra bytes, in one notification.
DeliverExtra(f, x) ==
    /\ NoSplitPending
    /\ Notify(f \o x, MaxBuf)
    /\ nphase' = "extra"
    /\ nframe' = f
    /\ ncut' = 0
    /\ nstart' = buf
    /\ nwhole' = notification_handler(buf, state, f)
    /\ UNCHANGED connVars

\* Two frames arrive in one notification, f before g.
DeliverDouble(f, g) ==
    /\ NoSplitPending
    /\ Notify(f \o g, MaxDouble)
    /\ nphase' = "double"
    /\ nframe' = g
    /\ ncut' = 0
    /\ nstart' = buf
    /\ nwhole' = notification_handler(buf, state, g)
    /\ UNCHANGED connVars

\* The first k bytes of a frame arrive.
DeliverFirst(f, k) ==
    /\ NoSplitPending
    /\ Len(buf) + Len(f) <= MaxBuf
    /\ Notify(SubSeq(f, 1, k), MaxBuf)
    /\ nphase' = "first"
    /\ nframe' = f
    /\ ncut' = k
    /\ nstart' = buf
    /\ nwhole' = notification_handler(buf, state, f)
    /\ UNCHANGED connVars

\* The rest of that frame arrives in the next notification.
DeliverSecond ==
    /\ nphase = "first"
    /\ Notify(SubSeq(nframe, ncut + 1, Len(nframe)), MaxBuf)
    /\ nphase' = "second"
    /\ UNCHANGED << nframe, ncut, nstart, nwhole >>
    /\ UNCHANGED connVars

\* What an action that is not a notification records.
NoNotification ==
    /\ nfired' = << >>
    /\ nprev' = buf
    /\ nprevState' = state
    /\ ndata' = << >>
    /\ nframe' = << >>
    /\ ncut' = 0
    /\ nstart' = buf
    /\ nwhole' = Outcome(buf, state, "none", << >>)
    /\ UNCHANGED << buf, state >>

\* register_callback (lines 197-206): append, return the handle.
register_callback(cb) ==
    /\ NoSplitPending
    /\ Len(callbacks) < MaxCallbacks
    /\ callbacks' = Append(callbacks, cb)
    /\ handles' = handles \cup {cb}
    /\ nphase' = "register"
    /\ nraised' = "none"
    /\ NoNotification
    /\ UNCHANGED connVars

\* list.remove(x): the first element equal to x is removed.
Remove(seq, x) ==
    LET i == Min({ j \in 1..Len(seq) : seq[j] = x })
    IN  SubSeq(seq, 1, i - 1) \o SubSeq(seq, i + 1, Len(seq))

\* unregister_callback (lines 202-203), the handle of callback cb:
\* self._callbacks.remove(callback), which raises ValueError when the
\* callback is not in the list.
unregister_callback(cb) ==
    /\ NoSplitPending
    /\ cb \in handles
    /\ nphase' = "unregister"
    /\ IF \E j \in 1..Len(callbacks) : callbacks[j] = cb
       THEN callbacks' = Remove(callbacks, cb) /\ nraised' = "none"
       ELSE callbacks' = callbacks /\ nraised' = "ValueError"
    /\ UNCHANGED handles
    /\ NoNotification
    /\ UNCHANGED connVars

\* The record of the last call is dropped.
NotifyReturn ==
    /\ nphase \in {"whole", "extra", "double", "second", "register",
                  "unregister"}
    /\ nphase' = "idle"
    /\ nraised' = "none"
    /\ NoNotification
    /\ UNCHANGED << callbacks, handles >>
    /\ UNCHANGED connVars

NextNotify ==
    \/ \E f \in Frames : DeliverWhole(f)
    \/ \E f \in Frames : \E x \in Extras : DeliverExtra(f, x)
    \/ \E f \in Frames : \E g \in Frames : DeliverDouble(f, g)
    \/ \E f \in Frames : \E k \in 1..(Len(f) - 1) : DeliverFirst(f, k)
    \/ DeliverSecond
    \/ \E cb \in CallbackIds : register_callback(cb)
    \/ \E cb \in CallbackIds : unregister_callback(cb)
    \/ NotifyReturn

SpecNotify == Init /\ [][NextNotify]_vars

-----------------------------------------------------------------------------
(* The claims about the connection life cycle.                             *)

Transient == {"BleakError", "BleakDBusError"}

\* The caller's task t has just ended a command send: _send_command, or
\* _send_command_while_connected called on its own.
SendEnded(t) == pc[t] = "done" /\ op[t] \in {"send", "write"}

\* C1: when every write a command send attempts raises a transient failure
\* (BleakDBusError or BleakError), the send ends after exactly
\* DEFAULT_ATTEMPTS write attempts, with a forced disconnect between
\* consecutive attempts, and raises the transient failure.
C1_RetryExhaustion ==
    \A t \in Callers :
        (SendEnded(t) /\ nWriteCalls[t] >= 1 /\ nWriteFails[t] = nWriteCalls[t])
            => /\ nWriteCalls[t] = DEFAULT_ATTEMPTS
               /\ nForced[t] >= DEFAULT_ATTEMPTS - 1
               /\ result[t] \in Transient

\* C2: a command send whose write failed once with a transient failure, the
\* transport behaving from then on, returns successfully.
C2_RetryRecovers ==
    \A t \in Callers :
        (SendEnded(t) /\ nWriteFails[t] = 1 /\ nFaults = 1)
            => result[t] = "ok"

Handshake == << 1, 2, 3, 4 >>

IsPrefix(a, b) == Len(a) <= Len(b) /\ a = SubSeq(b, 1, Len(a))

\* The connect sequence of connection c is over: the task that made it is
\* no longer inside _ensure_connected.
ConnectOver(c) ==
    /\ c <= connCount
    /\ \A t \in Tasks : ecClient[t] = c => pc[t] = "done"

\* C3: the handshake commands a connection gets are passcode, enable
\* configuration, enable engineering, disable configuration, in this order
\* and once each, and a connection whose connect sequence is over has got
\* all four.
C3_HandshakeOrder ==
    \A c \in 1..MaxCalls :
        /\ IsPrefix(hsWrites[c], Handshake)
        /\ (ConnectOver(c) => hsWrites[c] = Handshake)

\* C4: a connection is established only while the client has no live
\* connection, and a task that gets the connect lock after another task
\* connected sees that connection in the second check: it establishes none,
\* and the connection it finds has had its handshake, the four writes, once.
C4_ConnectOnce ==
    /\ [][connCount' # connCount => ~Connected(St)]_vars
    /\ [][\A t \in Callers :
            (EcAcquire(t) /\ Connected(St))
                => /\ connCount' = connCount
                   /\ hsWrites'[client] = Handshake]_vars

\* C5: while a task is between the first and the last write of its command,
\* no write of another task ends and none is in flight.
C5_NoInterleaving ==
    /\ [][\A t \in Tasks : \A u \in Tasks \ {t} : t \in midCmd => ~Write(u)]_vars
    /\ [](\A t \in Tasks : \A u \in Tasks \ {t} : t \in midCmd => pc[u] # "write")

\* C5's case: one task is in the middle of its command while another has
\* requested a send and waits for the operation lock.
C5_Witness ==
    \E t \in Callers : \E u \in Callers \ {t} :
        /\ t \in midCmd /\ pc[t] = "write"
        /\ pc[u] = "op_wait" /\ waiting.operation = << u >>

\* C6: once stop has returned, and until the timer is armed again, the
\* timer callback does not run.
C6_StopCancelsTimer ==
    [][stopSinceArm => \A d \in TimerTasks : ~TimerFire(d)]_vars

\* The client holds a live connection, the characteristics resolved, and no
\* caller has an operation under way.
ConnectedIdle ==
    /\ Connected(St)
    /\ readChar = "char"
    /\ \A t \in Callers : pc[t] = "idle"

\* The client is disconnected from c: no handle, the transport closed.
Disconnected(c) == client = 0 /\ c \notin live

\* C7: a client connected with no operation under way holds the latest
\* connection made; from there, and unless a caller starts an operation, the
\* idle job fires and the client becomes disconnected from it; a scheduled
\* job runs the callback at most once.
C7_IdleDisconnect ==
    /\ [](ConnectedIdle => client = connCount)
    /\ ConnectedIdle
           ~> (Disconnected(connCount) \/ \E t \in Callers : pc[t] # "idle")
    /\ [](firesSinceArm <= 1)

\* C8: at most one idle-disconnect job is outstanding.
C8_OneJob == pendingJobs <= 1

\* C8's case: the timer is armed again on a second connection, after the
\* first connection's timer was armed, re-armed and ended.
C8_Witness == pendingJobs = 1 /\ timerHandle /\ connCount = 2 /\ client = 2

\* C16: a device-not-found failure during a command send ends the send at
\* once with that failure: no write was attempted, no forced disconnect was
\* made and the retry wrapper was never entered.  (The code at hand never
\* raises the characteristic-missing error.)
NotRetried == {"BleakNotFoundError", "CharacteristicMissingError"}

C16_NotFoundNotRetried ==
    /\ [][\A t \in Callers :
            EstablishFail(t) => /\ pc'[t] = "done"
                                /\ result'[t] = "BleakNotFoundError"
                                /\ connCount' = connCount]_vars
    /\ [](\A t \in Callers :
            (SendEnded(t) /\ result[t] \in NotRetried)
                => /\ attempt[t] = 0
                   /\ nWriteCalls[t] = 0
                   /\ nForced[t] = 0)

\* C16's case: a send has ended with the device-not-found failure.
C16_Witness ==
    \E t \in Callers : SendEnded(t) /\ result[t] = "BleakNotFoundError"

\* C17: when the lookup on the re-fetched service list fails too, the
\* connect attempt ends there with the characteristic-missing error: the
\* connection is not published as the client's, and it gets no write.
C17_MissingFails ==
    [][\A t \in Tasks :
          GetServicesDone(t, FALSE)
              => /\ pc'[t] = "done"
                 /\ result'[t] = "CharacteristicMissingError"
                 /\ client' # ecClient[t]
                 /\ hsWrites' = hsWrites]_vars

\* C18: no task waits for the connect lock while it holds that lock itself
\* (asyncio.Lock is not re-entrant: such a task never runs again, and no
\* send or connect it is part of returns or raises).
WaitsForConnectLock(t) == pc[t] \in {"ec_wait", "dc_wait"}

C18_NoSelfDeadlock ==
    \A t \in Tasks : ~(WaitsForConnectLock(t) /\ connectLock = t)

\* C19: the assertion of line 450 does not fail in a send that has got as
\* far as a write: no retry attempt ends with the AssertionError that
\* _execute_command_locked raises when it finds no connection handle.
C19_AssertionHolds ==
    \A t \in Callers :
        ~(pc[t] = "done" /\ result[t] = "AssertionError" /\ attempt[t] >= 2)

-----------------------------------------------------------------------------
(* The claims about the notification handler.                              *)

Delivered == nphase \in {"whole", "extra", "double", "first", "second"}

\* C9: when a notification has been appended and the buffer then holds no
\* complete frame, the handler has returned normally, the buffer is its
\* previous content followed by the new bytes, the state is the one before
\* the notification, and no callback was invoked.
C9_NoFrameReturns ==
    (Delivered /\ search(nprev \o ndata) = None)
        => /\ nraised = "none"
           /\ buf = nprev \o ndata
           /\ state = nprevState
           /\ nfired = << >>

\* C10: after a frame has been delivered in two consecutive notifications
\* to a client whose buffer was empty, the state is the state that one
\* notification with the whole frame would have left, and the buffer is
\* empty.
C10_SplitEqualsWhole ==
    (nphase = "second" /\ nstart = << >>)
        => /\ state = nwhole.state
           /\ buf = << >>

\* The state "no reading yet" that the fields of models.py describe.
NoReading ==
    [is_moving |-> FALSE, is_static |-> FALSE,
     moving_target_distance |-> 0, moving_target_energy |-> 0,
     static_target_distance |-> 0, static_target_energy |-> 0,
     detection_distance |-> 0, max_motion_gates |-> 8, max_static_gates |-> 8,
     motion_energy_gates |-> << 0, 0, 0, 0, 0, 0, 0, 0, 0 >>,
     static_energy_gates |-> << 0, 0, 0, 0, 0, 0, 0, 0, 0 >>]

\* What the frame grammar and the state record say a frame f built by Frame
\* decodes to: the motion flags are the two low bits of the target-state
\* byte, distances are little-endian 16-bit values, and an engineering
\* frame carries the two gate counts and the two arrays of nine energies.
LittleEndian(lo, hi) == lo + 256 * hi

Decoded(f) ==
    LET basic == [NoReading EXCEPT
                    !.is_moving = (f[9] % 2 = 1),
                    !.is_static = ((f[9] \div 2) % 2 = 1),
                    !.moving_target_distance = LittleEndian(f[10], f[11]),
                    !.moving_target_energy = f[12],
                    !.static_target_distance = LittleEndian(f[13], f[14]),
                    !.static_target_energy = f[15],
                    !.detection_distance = LittleEndian(f[16], f[17])]
    IN  IF Len(f) = 23 THEN basic
        ELSE [basic EXCEPT !.max_motion_gates = f[18],
                           !.max_static_gates = f[19],
                           !.motion_energy_gates = SubSeq(f, 20, 28),
                           !.static_energy_gates = SubSeq(f, 29, 37)]

\* C11: when the buffer matched, it holds afterwards exactly the bytes that
\* followed the match; and a frame followed by extra bytes, delivered to a
\* client whose buffer was empty, leaves the frame's decode as the state
\* and exactly the extra bytes in the buffer.
C11_FrameRemoved ==
    /\ (Delivered /\ search(nprev \o ndata) # None)
           => buf = SubSeq(nprev \o ndata, search(nprev \o ndata).end + 1,
                           Len(nprev) + Len(ndata))
    /\ (nphase = "extra" /\ nstart = << >>)
           => /\ buf = SubSeq(ndata, Len(nframe) + 1, Len(ndata))
              /\ state = Decoded(nframe)

\* One notification carried a frame, whole and alone, to a client whose
\* buffer was empty.
WholeOnEmpty == nphase = "whole" /\ nstart = << >>

\* C12: a frame without engineering data replaces the state with its
\* decode: the motion flags of the target-state byte, the little-endian
\* distances, the energies, and the default engineering fields.
C12_BasicDecode ==
    (WholeOnEmpty /\ search(ndata) # None /\ Len(nframe) = 23)
        => state = Decoded(nframe)

\* The gate array g of the state st; none when st has no such field.
Gates(st, g) == IF g \in DOMAIN st THEN st[g] ELSE << >>

\* C13: after any notification the two gate arrays of the state have nine
\* elements, and after an engineering frame they are the frame's two arrays.
C13_GateArrays ==
    /\ Delivered => /\ Len(Gates(state, "motion_energy_gates")) = 9
                    /\ Len(Gates(state, "static_energy_gates")) = 9
    /\ (WholeOnEmpty /\ search(ndata) # None /\ Len(nframe) > 23)
           => /\ Gates(state, "motion_energy_gates") = SubSeq(nframe, 20, 28)
              /\ Gates(state, "static_energy_gates") = SubSeq(nframe, 29, 37)

\* C14: a frame that matched invokes, inside the handler, every registered
\* callback once, in registration order, with the new state.
C14_CallbacksFired ==
    (WholeOnEmpty /\ search(ndata) # None)
        => nfired = [i \in 1..Len(callbacks) |->
                        << callbacks[i], Decoded(nframe) >>]

\* C15: invoking the handle of a callback that is not in the list raises
\* nothing and leaves the list as it was.
C15_UnregisterAbsent ==
    [][\A cb \in CallbackIds :
          (unregister_callback(cb) /\ \A j \in 1..Len(callbacks) : callbacks[j] # cb)
              => (nraised' = "none" /\ callbacks' = callbacks)]_vars

\* C21: after the handler has run, the buffer holds no complete frame, and
\* after a notification that carried two frames to a client whose buffer
\* was empty the state is the decode of the second, the most recent one.
C21_AllFramesDecoded ==
    /\ Delivered => search(buf) = None
    /\ (nphase = "double" /\ nstart = << >> /\ search(ndata) # None)
           => state = Decoded(nframe)

=============================================================================
